---- MODULE Spec2Model ----
(***************************************************************************)
(* Incremental movie scraper (api/scrape.js).                              *)
(*                                                                         *)
(* The upstream catalogue is a newest-first list of records served in      *)
(* pages.  A record is identified by its name; names are the naturals      *)
(* 1, 2, 3, ... in publication order, so the larger name is the more       *)
(* recently published record.  The tables movies and scraper_state are     *)
(* sequences of rows in AUTO_INCREMENT id order.  One invocation of        *)
(* scrapeMoviesIncrementally is a run of the actions Start, the page       *)
(* steps, Flush, the Writer's record steps, WriterReturn and Finish.       *)
(***************************************************************************)
EXTENDS Integers, Sequences, FiniteSets, TLC

VARIABLES
    upstream,         \* the catalogue, newest first
    pageSize,         \* records per upstream page
    attrs,            \* per record name: its download_links, genre and tags
    movies,           \* names of the rows of table movies, in id order
    download_links,   \* rows of table download_links, in id order
    genres,           \* names of the rows of table genres, in id order
    tags,             \* names of the rows of table tags, in id order
    movie_genres,     \* rows of table movie_genres, in insertion order
    movie_tags,       \* rows of table movie_tags, in insertion order
    scraper_state,    \* rows of table scraper_state, in id order
    pc,               \* position of the running invocation, "idle" between invocations
    runs,             \* invocations started so far
    faults,           \* failures injected so far
    dbLastMovieName,  \* scrapeMoviesIncrementally: const dbLastMovieName
    state,            \* scrapeMoviesIncrementally: const state
    page,             \* scrapeMoviesIncrementally: let page
    i,                \* scrapeMoviesIncrementally: loop counter i
    foundLastMovie,   \* scrapeMoviesIncrementally: let foundLastMovie
    newMovies,        \* scrapeMoviesIncrementally: let newMovies
    stats,            \* scrapeMoviesIncrementally: let stats
    batch,            \* insertNewMovies: parameter movies
    idx,              \* insertNewMovies: index of the record the for loop is at
    insertedMovies,   \* insertNewMovies: const insertedMovies
    result,           \* what the last invocation gave its caller
    endCause,         \* history: how the paging loop of the last invocation ended
    split,            \* history: the last page scanned, with the scan's outcome
    keeps,            \* history: the per-page kept prefixes of this invocation
    fetched,          \* history: the page numbers requested by this invocation
    outcomes,         \* history: per record of the batch, how its insertion went
    moviesBefore,     \* history: table movies when the invocation started
    prev,             \* history: how the paging of the invocation before this one ended
    cycleBase,        \* history: destination watermark when the crawl cycle started
    unflushed         \* history: records a crash dropped from newMovies in this cycle

vars == <<upstream, pageSize, attrs, movies, download_links, genres, tags,
          movie_genres, movie_tags, scraper_state, pc, runs, faults,
          dbLastMovieName, state, page, i, foundLastMovie, newMovies, stats,
          batch, idx, insertedMovies, result, endCause, split, keeps, fetched,
          outcomes, moviesBefore, prev, cycleBase, unflushed>>

locals  == <<dbLastMovieName, state, page, i, foundLastMovie, newMovies, stats>>
writer  == <<batch, idx, insertedMovies>>
env     == <<upstream, pageSize, attrs>>
attached == <<download_links, genres, tags, movie_genres, movie_tags>>
history == <<split, keeps, fetched, outcomes, moviesBefore, prev, cycleBase, unflushed>>

----------------------------------------------------------------------------
(* Bounds of the model *)

MaxUp       == 6     \* records the upstream ever holds
MaxPageSize == 3     \* largest upstream page size
MaxRuns     == 3     \* invocations per behaviour
MaxFaults   == 1     \* failures per behaviour, failing records apart
MaxRecordFaults == 2 \* records of one batch whose insertion fails
MaxTaxUp    == 3     \* records of the catalogue when their attachments vary

(* Program constants *)

maxPagesToProcess == 4

Null == 0            \* JavaScript null / SQL NULL in a name column

----------------------------------------------------------------------------
(* Helpers *)

Min(a, b) == IF a < b THEN a ELSE b

Range(s) == { s[j] : j \in 1..Len(s) }

Last(s) == s[Len(s)]

RECURSIVE Reverse(_)
Reverse(s) == IF s = <<>> THEN <<>> ELSE Append(Reverse(Tail(s)), Head(s))

RECURSIVE Concat(_)
Concat(ss) == IF ss = <<>> THEN <<>> ELSE Head(ss) \o Concat(Tail(ss))

\* the catalogue holding n records, newest first
Catalogue(n) == [j \in 1..n |-> n + 1 - j]

\* the upstream API: the records of page p
FetchPage(p) ==
    LET lo == (p - 1) * pageSize + 1
        hi == Min(p * pageSize, Len(upstream))
    IN  IF lo > hi THEN <<>> ELSE SubSeq(upstream, lo, hi)

Row(lastPage, lastMovieName, completed) ==
    [last_page |-> lastPage, last_movie_name |-> lastMovieName, completed |-> completed]

InitialRow == Row(1, Null, FALSE)

\* SELECT name FROM movies ORDER BY id DESC LIMIT 1
getLastMovieName == IF movies = <<>> THEN Null ELSE Last(movies)

\* getScraperState: the table after the call (a first row is created when none exists)
TableAfterGet == IF scraper_state = <<>> THEN <<InitialRow>> ELSE scraper_state

\* getScraperState: the state returned, the row with the largest id
getScraperState == Last(TableAfterGet)

\* updateScraperState: one more row
updateScraperState(table, lastPage, lastMovieName, completed) ==
    Append(table, Row(lastPage, lastMovieName, completed))

\* moviesForThisPage[0]?.name || state.lastMovieName
WatermarkOf(keep) == IF keep = <<>> THEN state.last_movie_name ELSE keep[1]

\* Scan with the break after the push: the matching record is kept too
RECURSIVE ScanKeepsMatch(_, _, _, _)
ScanKeepsMatch(records, wm, j, acc) ==
    IF j > Len(records) THEN [keep |-> acc, hit |-> FALSE]
    ELSE IF records[j] = wm THEN [keep |-> Append(acc, records[j]), hit |-> TRUE]
    ELSE ScanKeepsMatch(records, wm, j + 1, Append(acc, records[j]))

\* the for loop over data.movies: collect until a record named wm is met
RECURSIVE Scan(_, _, _, _)
Scan(records, wm, j, acc) ==
    IF j > Len(records) THEN [keep |-> acc, hit |-> FALSE]
    ELSE IF records[j] = wm THEN [keep |-> acc, hit |-> TRUE]
    ELSE Scan(records, wm, j + 1, Append(acc, records[j]))

Split(records, wm) == Scan(records, wm, 1, <<>>)

\* a record with one download link and no genre or tag
Plain == [links |-> 1, genre |-> <<>>, tags |-> <<>>]

\* the records the Writer is tried on: without a download link, with labels
\* shared between records and between genre and tags
Profiles ==
    { Plain,
      [links |-> 0, genre |-> <<"a">>, tags |-> <<>>],
      [links |-> 1, genre |-> <<"a", "b">>, tags |-> <<"a">>] }

\* per label of a list: get-or-create the entity, then insert the linking row
RECURSIVE LabelStatements(_, _, _)
LabelStatements(entity, link, labels) ==
    IF labels = <<>> THEN <<>>
    ELSE <<[op |-> entity, label |-> Head(labels)], [op |-> link, label |-> Head(labels)]>>
             \o LabelStatements(entity, link, Tail(labels))

\* insertNewMovies, lines 137-174: the statements that follow the INSERT INTO
\* movies of a record, in order
Statements(rec) ==
    [l \in 1..rec.links |-> [op |-> "download_links", label |-> "a"]]
        \o LabelStatements("genres", "movie_genres", rec.genre)
        \o LabelStatements("tags", "movie_tags", rec.tags)

\* an INSERT without the SELECT
GetOrCreateAlwaysInserts(table, name) ==
    Append(table, name)

\* lines 146-152 and 162-168: SELECT id ... WHERE name = ?, INSERT when no row
GetOrCreate(table, name) ==
    IF \E j \in 1..Len(table) : table[j] = name THEN table ELSE Append(table, name)

\* the id the get-or-create yields: rows[0].id or the insertId
IdOf(table, name) ==
    CHOOSE j \in 1..Len(table) : table[j] = name /\ \A q \in 1..(j - 1) : table[q] # name

\* one statement of a record on the tables T, movieId being the record's row
Apply(st, movieId, T) ==
    CASE st.op = "download_links" ->
             [T EXCEPT !.download_links = Append(@, [movie_id |-> movieId])]
      [] st.op = "genres" ->
             [T EXCEPT !.genres = GetOrCreate(@, st.label)]
      [] st.op = "movie_genres" ->
             [T EXCEPT !.movie_genres =
                 Append(@, [movie_id |-> movieId, genre_id |-> IdOf(T.genres, st.label)])]
      [] st.op = "tags" ->
             [T EXCEPT !.tags = GetOrCreate(@, st.label)]
      [] st.op = "movie_tags" ->
             [T EXCEPT !.movie_tags =
                 Append(@, [movie_id |-> movieId, tag_id |-> IdOf(T.tags, st.label)])]

RECURSIVE ApplyAll(_, _, _)
ApplyAll(sts, movieId, T) ==
    IF sts = <<>> THEN T ELSE ApplyAll(Tail(sts), movieId, Apply(Head(sts), movieId, T))

NoTables == [download_links |-> <<>>, genres |-> <<>>, tags |-> <<>>,
             movie_genres |-> <<>>, movie_tags |-> <<>>]

\* the tables as they are
Tables == [download_links |-> download_links, genres |-> genres, tags |-> tags,
           movie_genres |-> movie_genres, movie_tags |-> movie_tags]

\* the tables of a store into which the records 1..k were inserted, in order
RECURSIVE Seeded(_, _)
Seeded(a, k) ==
    IF k = 0 THEN NoTables ELSE ApplyAll(Statements(a[k]), k, Seeded(a, k - 1))

NoStats == [processedPages |-> 0, moviesFound |-> 0, moviesInserted |-> 0]

NoResult == [kind |-> "none", completed |-> FALSE, nextPage |-> 0, stats |-> NoStats]

NoSplit == [called |-> FALSE, records |-> <<>>, wm |-> Null, keep |-> <<>>, hit |-> FALSE]

----------------------------------------------------------------------------
(* Initial states: a catalogue of n records, a destination store holding   *)
(* its k oldest records in publication order, and no progress table.       *)

\* what does not depend on the catalogue: no invocation has run
InitRest ==
    /\ download_links = Seeded(attrs, Len(movies)).download_links
    /\ genres = Seeded(attrs, Len(movies)).genres
    /\ tags = Seeded(attrs, Len(movies)).tags
    /\ movie_genres = Seeded(attrs, Len(movies)).movie_genres
    /\ movie_tags = Seeded(attrs, Len(movies)).movie_tags
    /\ scraper_state = <<>>
    /\ pc = "idle"
    /\ runs = 0
    /\ faults = 0
    /\ dbLastMovieName = Null
    /\ state = InitialRow
    /\ page = 1
    /\ i = 0
    /\ foundLastMovie = FALSE
    /\ newMovies = <<>>
    /\ stats = NoStats
    /\ batch = <<>>
    /\ idx = 0
    /\ insertedMovies = <<>>
    /\ result = NoResult
    /\ endCause = "none"
    /\ split = NoSplit
    /\ keeps = <<>>
    /\ fetched = <<>>
    /\ outcomes = <<>>
    /\ moviesBefore = movies
    /\ prev = [cause |-> "none", page |-> 0]
    /\ cycleBase = Null
    /\ unflushed = {}

Init ==
    /\ \E n \in 0..MaxUp : upstream = Catalogue(n)
    /\ pageSize \in 1..MaxPageSize
    /\ attrs = [j \in 1..MaxUp |-> Plain]
    /\ \E k \in 0..Len(upstream) : movies = [j \in 1..k |-> j]
    /\ InitRest

\* a short catalogue of records of every profile
InitTaxonomy ==
    /\ \E n \in 0..MaxTaxUp : upstream = Catalogue(n)
    /\ pageSize \in 1..MaxPageSize
    /\ \E f \in [1..Len(upstream) -> Profiles] :
           attrs = [j \in 1..MaxUp |-> IF j <= Len(upstream) THEN f[j] ELSE Plain]
    /\ \E k \in 0..Len(upstream) : movies = [j \in 1..k |-> j]
    /\ InitRest

----------------------------------------------------------------------------
(* scrapeMoviesIncrementally, lines 190-207: read the destination          *)
(* watermark and the progress state, start a new cycle after a completed   *)
(* one, initialise the locals.                                             *)

Start ==
    /\ pc = "idle"
    /\ runs < MaxRuns
    /\ runs' = runs + 1
    /\ dbLastMovieName' = getLastMovieName
    /\ LET st    == getScraperState
           fresh == scraper_state = <<>> \/ st.completed
       IN  /\ scraper_state' = IF st.completed
                               THEN updateScraperState(TableAfterGet, 1, Null, FALSE)
                               ELSE TableAfterGet
           /\ state' = IF st.completed THEN InitialRow ELSE st
           /\ page' = IF st.completed THEN 1 ELSE st.last_page
           /\ cycleBase' = IF fresh THEN getLastMovieName ELSE cycleBase
           /\ unflushed' = IF fresh THEN {} ELSE unflushed
    /\ i' = 0
    /\ foundLastMovie' = FALSE
    /\ newMovies' = <<>>
    /\ stats' = NoStats
    /\ pc' = "paging"
    /\ result' = NoResult
    /\ prev' = [cause |-> endCause, page |-> IF fetched = <<>> THEN 0 ELSE Last(fetched)]
    /\ endCause' = "none"
    /\ split' = NoSplit
    /\ keeps' = <<>>
    /\ fetched' = <<>>
    /\ outcomes' = <<>>
    /\ moviesBefore' = movies
    /\ UNCHANGED <<env, movies, attached, faults, writer>>

\* the locals of an invocation that has ended
ResetLocals ==
    /\ dbLastMovieName' = Null
    /\ state' = InitialRow
    /\ page' = 1
    /\ i' = 0
    /\ foundLastMovie' = FALSE
    /\ newMovies' = <<>>
    /\ stats' = NoStats
    /\ batch' = <<>>
    /\ idx' = 0
    /\ insertedMovies' = <<>>

(* lines 229-233: the page holds no record: mark completed, leave the loop *)
FetchEmpty ==
    /\ pc = "paging"
    /\ i < maxPagesToProcess
    /\ FetchPage(page) = <<>>
    /\ scraper_state' = updateScraperState(scraper_state, page, state.last_movie_name, TRUE)
    /\ fetched' = Append(fetched, page)
    /\ endCause' = "empty"
    /\ pc' = "flush"
    /\ UNCHANGED <<env, movies, attached, runs, faults, locals, writer, result, split, keeps,
                   outcomes, moviesBefore, prev, cycleBase, unflushed>>

\* FetchFound without line 250: the records before the boundary are forgotten
FetchFoundDropsPage ==
    /\ pc = "paging"
    /\ i < maxPagesToProcess
    /\ LET records == FetchPage(page)
           s       == Split(records, dbLastMovieName)
       IN  /\ records # <<>>
           /\ s.hit
           /\ stats' = [stats EXCEPT !.processedPages = @ + 1,
                                     !.moviesFound = @ + Len(records)]
           /\ foundLastMovie' = TRUE
           /\ newMovies' = newMovies
           /\ scraper_state' =
                  updateScraperState(scraper_state, page, WatermarkOf(s.keep), TRUE)
           /\ split' = [called |-> TRUE, records |-> records, wm |-> dbLastMovieName,
                        keep |-> s.keep, hit |-> s.hit]
           /\ keeps' = Append(keeps, s.keep)
    /\ fetched' = Append(fetched, page)
    /\ endCause' = "boundary"
    /\ pc' = "flush"
    /\ UNCHANGED <<env, movies, attached, runs, faults, dbLastMovieName, state, page, i, writer,
                   result, outcomes, moviesBefore, prev, cycleBase, unflushed>>

(* lines 235-252: the page holds the destination watermark: keep the       *)
(* records before it, mark completed, leave the loop                       *)
FetchFound ==
    /\ pc = "paging"
    /\ i < maxPagesToProcess
    /\ LET records == FetchPage(page)
           s       == Split(records, dbLastMovieName)
       IN  /\ records # <<>>
           /\ s.hit
           /\ stats' = [stats EXCEPT !.processedPages = @ + 1,
                                     !.moviesFound = @ + Len(records)]
           /\ foundLastMovie' = TRUE
           /\ newMovies' = newMovies \o s.keep
           /\ scraper_state' =
                  updateScraperState(scraper_state, page, WatermarkOf(s.keep), TRUE)
           /\ split' = [called |-> TRUE, records |-> records, wm |-> dbLastMovieName,
                        keep |-> s.keep, hit |-> s.hit]
           /\ keeps' = Append(keeps, s.keep)
    /\ fetched' = Append(fetched, page)
    /\ endCause' = "boundary"
    /\ pc' = "flush"
    /\ UNCHANGED <<env, movies, attached, runs, faults, dbLastMovieName, state, page, i, writer,
                   result, outcomes, moviesBefore, prev, cycleBase, unflushed>>

\* FetchAdvance with the progress write of line 257 before the increment of
\* line 255: the page just processed is saved
FetchAdvanceSavesOldPage ==
    /\ pc = "paging"
    /\ i < maxPagesToProcess
    /\ LET records == FetchPage(page)
           s       == Split(records, dbLastMovieName)
       IN  /\ records # <<>>
           /\ ~s.hit
           /\ stats' = [stats EXCEPT !.processedPages = @ + 1,
                                     !.moviesFound = @ + Len(records)]
           /\ newMovies' = newMovies \o s.keep
           /\ page' = page + 1
           /\ scraper_state' =
                  updateScraperState(scraper_state, page, WatermarkOf(s.keep), FALSE)
           /\ split' = [called |-> TRUE, records |-> records, wm |-> dbLastMovieName,
                        keep |-> s.keep, hit |-> s.hit]
           /\ keeps' = Append(keeps, s.keep)
    /\ fetched' = Append(fetched, page)
    /\ i' = i + 1
    /\ pc' = IF i + 1 < maxPagesToProcess THEN "paging" ELSE "flush"
    /\ endCause' = IF i + 1 < maxPagesToProcess THEN endCause ELSE "budget"
    /\ UNCHANGED <<env, movies, attached, runs, faults, dbLastMovieName, state, foundLastMovie,
                   writer, result, outcomes, moviesBefore, prev, cycleBase, unflushed>>

\* FetchAdvance without the progress write of line 257
FetchAdvanceUnsaved ==
    /\ pc = "paging"
    /\ i < maxPagesToProcess
    /\ LET records == FetchPage(page)
           s       == Split(records, dbLastMovieName)
       IN  /\ records # <<>>
           /\ ~s.hit
           /\ stats' = [stats EXCEPT !.processedPages = @ + 1,
                                     !.moviesFound = @ + Len(records)]
           /\ newMovies' = newMovies \o s.keep
           /\ page' = page + 1
           /\ scraper_state' = scraper_state
           /\ split' = [called |-> TRUE, records |-> records, wm |-> dbLastMovieName,
                        keep |-> s.keep, hit |-> s.hit]
           /\ keeps' = Append(keeps, s.keep)
    /\ fetched' = Append(fetched, page)
    /\ i' = i + 1
    /\ pc' = IF i + 1 < maxPagesToProcess THEN "paging" ELSE "flush"
    /\ endCause' = IF i + 1 < maxPagesToProcess THEN endCause ELSE "budget"
    /\ UNCHANGED <<env, movies, attached, runs, faults, dbLastMovieName, state, foundLastMovie,
                   writer, result, outcomes, moviesBefore, prev, cycleBase, unflushed>>

\* FetchAdvance in a loop without the bound of line 211
FetchAdvanceNoBudget ==
    /\ pc = "paging"
    /\ i < maxPagesToProcess
    /\ LET records == FetchPage(page)
           s       == Split(records, dbLastMovieName)
       IN  /\ records # <<>>
           /\ ~s.hit
           /\ stats' = [stats EXCEPT !.processedPages = @ + 1,
                                     !.moviesFound = @ + Len(records)]
           /\ newMovies' = newMovies \o s.keep
           /\ page' = page + 1
           /\ scraper_state' =
                  updateScraperState(scraper_state, page + 1, WatermarkOf(s.keep), FALSE)
           /\ split' = [called |-> TRUE, records |-> records, wm |-> dbLastMovieName,
                        keep |-> s.keep, hit |-> s.hit]
           /\ keeps' = Append(keeps, s.keep)
    /\ fetched' = Append(fetched, page)
    /\ i' = i + 1
    /\ pc' = "paging"
    /\ endCause' = endCause
    /\ UNCHANGED <<env, movies, attached, runs, faults, dbLastMovieName, state, foundLastMovie,
                   writer, result, outcomes, moviesBefore, prev, cycleBase, unflushed>>

\* FetchAdvance without the increment of line 255
FetchAdvanceStuck ==
    /\ pc = "paging"
    /\ i < maxPagesToProcess
    /\ LET records == FetchPage(page)
           s       == Split(records, dbLastMovieName)
       IN  /\ records # <<>>
           /\ ~s.hit
           /\ stats' = [stats EXCEPT !.processedPages = @ + 1,
                                     !.moviesFound = @ + Len(records)]
           /\ newMovies' = newMovies \o s.keep
           /\ page' = page
           /\ scraper_state' =
                  updateScraperState(scraper_state, page, WatermarkOf(s.keep), FALSE)
           /\ split' = [called |-> TRUE, records |-> records, wm |-> dbLastMovieName,
                        keep |-> s.keep, hit |-> s.hit]
           /\ keeps' = Append(keeps, s.keep)
    /\ fetched' = Append(fetched, page)
    /\ i' = i + 1
    /\ pc' = IF i + 1 < maxPagesToProcess THEN "paging" ELSE "flush"
    /\ endCause' = IF i + 1 < maxPagesToProcess THEN endCause ELSE "budget"
    /\ UNCHANGED <<env, movies, attached, runs, faults, dbLastMovieName, state, foundLastMovie,
                   writer, result, outcomes, moviesBefore, prev, cycleBase, unflushed>>

(* lines 235-258: no record of the page is the destination watermark:      *)
(* keep the page, advance the cursor and save it                           *)
FetchAdvance ==
    /\ pc = "paging"
    /\ i < maxPagesToProcess
    /\ LET records == FetchPage(page)
           s       == Split(records, dbLastMovieName)
       IN  /\ records # <<>>
           /\ ~s.hit
           /\ stats' = [stats EXCEPT !.processedPages = @ + 1,
                                     !.moviesFound = @ + Len(records)]
           /\ newMovies' = newMovies \o s.keep
           /\ page' = page + 1
           /\ scraper_state' =
                  updateScraperState(scraper_state, page + 1, WatermarkOf(s.keep), FALSE)
           /\ split' = [called |-> TRUE, records |-> records, wm |-> dbLastMovieName,
                        keep |-> s.keep, hit |-> s.hit]
           /\ keeps' = Append(keeps, s.keep)
    /\ fetched' = Append(fetched, page)
    /\ i' = i + 1
    /\ pc' = IF i + 1 < maxPagesToProcess THEN "paging" ELSE "flush"
    /\ endCause' = IF i + 1 < maxPagesToProcess THEN endCause ELSE "budget"
    /\ UNCHANGED <<env, movies, attached, runs, faults, dbLastMovieName, state, foundLastMovie,
                   writer, result, outcomes, moviesBefore, prev, cycleBase, unflushed>>

\* Flush without the reverse of line 263
FlushNewestFirst ==
    /\ pc = "flush"
    /\ IF newMovies # <<>>
       THEN /\ batch' = newMovies
            /\ idx' = 1
            /\ insertedMovies' = <<>>
            /\ pc' = "writing"
       ELSE /\ pc' = "finish"
            /\ UNCHANGED writer
    /\ UNCHANGED <<env, movies, attached, scraper_state, runs, faults, locals, result, endCause,
                   history>>

(* lines 261-265: hand the collected records, reversed, to insertNewMovies *)
Flush ==
    /\ pc = "flush"
    /\ IF newMovies # <<>>
       THEN /\ batch' = Reverse(newMovies)
            /\ idx' = 1
            /\ insertedMovies' = <<>>
            /\ pc' = "writing"
       ELSE /\ pc' = "finish"
            /\ UNCHANGED writer
    /\ UNCHANGED <<env, movies, attached, scraper_state, runs, faults, locals, result, endCause,
                   history>>

\* the tables become T
Attach(T) ==
    /\ download_links' = T.download_links
    /\ genres' = T.genres
    /\ tags' = T.tags
    /\ movie_genres' = T.movie_genres
    /\ movie_tags' = T.movie_tags

(* insertNewMovies, lines 112-178: one record of the batch is inserted     *)
InsertOk ==
    /\ pc = "writing"
    /\ idx <= Len(batch)
    /\ movies' = Append(movies, batch[idx])
    /\ Attach(ApplyAll(Statements(attrs[batch[idx]]), Len(movies) + 1, Tables))
    /\ insertedMovies' = Append(insertedMovies, batch[idx])
    /\ outcomes' = Append(outcomes, "ok")
    /\ idx' = idx + 1
    /\ UNCHANGED <<env, scraper_state, pc, runs, faults, locals, batch, result, endCause,
                   split, keeps, fetched, moviesBefore, prev, cycleBase, unflushed>>

(* insertNewMovies, lines 187 and 263-264: the batch is done               *)
WriterReturn ==
    /\ pc = "writing"
    /\ idx > Len(batch)
    /\ stats' = [stats EXCEPT !.moviesInserted = Len(insertedMovies)]
    /\ pc' = "finish"
    /\ UNCHANGED <<env, movies, attached, scraper_state, runs, faults, dbLastMovieName, state, page,
                   i, foundLastMovie, newMovies, writer, result, endCause, history>>

\* lines 271-279: the run report
Report == [kind |-> "report", completed |-> foundLastMovie, nextPage |-> page,
           stats |-> stats]

(* lines 267-279: drop the progress table after a boundary hit, return     *)
Finish ==
    /\ pc = "finish"
    /\ scraper_state' = IF foundLastMovie THEN <<>> ELSE scraper_state
    /\ result' = Report
    /\ pc' = "idle"
    /\ ResetLocals
    /\ UNCHANGED <<env, movies, attached, runs, faults, endCause, history>>

----------------------------------------------------------------------------
(* Failures of the environment *)

\* the records of the current batch whose insertion has failed
RecordFaults == Cardinality({ j \in 1..Len(outcomes) : outcomes[j] # "ok" })

\* what the handler answers when scrapeMoviesIncrementally throws (lines 299-304)
Failure == [kind |-> "error", completed |-> FALSE, nextPage |-> 0, stats |-> NoStats]

\* what is left of an invocation the host killed
Killed == [kind |-> "crash", completed |-> FALSE, nextPage |-> 0, stats |-> NoStats]

\* Catch saving the cursor the invocation started from
CatchSavesStartCursor(p, saved) ==
    /\ scraper_state' =
           IF saved
           THEN updateScraperState(scraper_state, state.last_page, state.last_movie_name, FALSE)
           ELSE scraper_state
    /\ result' = Failure
    /\ pc' = "idle"
    /\ ResetLocals

(* lines 281-287: the catch block: save the cursor p with completed =      *)
(* false (a write that may fail in its turn), then throw to the handler    *)
Catch(p, saved) ==
    /\ scraper_state' = IF saved
                        THEN updateScraperState(scraper_state, p, state.last_movie_name, FALSE)
                        ELSE scraper_state
    /\ result' = Failure
    /\ pc' = "idle"
    /\ ResetLocals

(* lines 223-226: the upstream answers with a non-success status           *)
FetchNotOk ==
    /\ pc = "paging"
    /\ i < maxPagesToProcess
    /\ faults < MaxFaults
    /\ faults' = faults + 1
    /\ fetched' = Append(fetched, page)
    /\ endCause' = "notok"
    /\ pc' = "flush"
    /\ UNCHANGED <<env, movies, attached, scraper_state, runs, locals, writer, result, split, keeps,
                   outcomes, moviesBefore, prev, cycleBase, unflushed>>

(* lines 214-228: fetch rejects, or response.json() throws on the body     *)
FetchThrows ==
    /\ pc = "paging"
    /\ i < maxPagesToProcess
    /\ faults < MaxFaults
    /\ faults' = faults + 1
    /\ fetched' = Append(fetched, page)
    /\ endCause' = "threw"
    /\ \E saved \in BOOLEAN : Catch(page, saved)
    /\ UNCHANGED <<env, movies, attached, runs, split, keeps, outcomes, moviesBefore, prev,
                   cycleBase, unflushed>>

\* UpdateThrows with the failure of the write logged and the loop left by a
\* break: the invocation goes on to the flush
UpdateThrowsSwallowed ==
    /\ pc = "paging"
    /\ i < maxPagesToProcess
    /\ faults < MaxFaults
    /\ faults' = faults + 1
    /\ fetched' = Append(fetched, page)
    /\ endCause' = "error"
    /\ LET s == Split(FetchPage(page), dbLastMovieName)
       IN  /\ newMovies' = newMovies \o s.keep
           /\ keeps' = Append(keeps, s.keep)
    /\ pc' = "flush"
    /\ UNCHANGED <<env, movies, attached, scraper_state, runs, dbLastMovieName, state, page, i,
                   foundLastMovie, stats, writer, result, split, outcomes, moviesBefore,
                   prev, cycleBase, unflushed>>

(* lines 231, 251, 257: the progress write of a page step throws; in the   *)
(* branch of line 257 the cursor was incremented before the write          *)
UpdateThrows ==
    /\ pc = "paging"
    /\ i < maxPagesToProcess
    /\ faults < MaxFaults
    /\ faults' = faults + 1
    /\ fetched' = Append(fetched, page)
    /\ endCause' = "error"
    /\ LET records == FetchPage(page)
           s       == Split(records, dbLastMovieName)
           cursor  == IF records = <<>> \/ s.hit THEN page ELSE page + 1
       IN  \E saved \in BOOLEAN : Catch(cursor, saved)
    /\ UNCHANGED <<env, movies, attached, runs, split, keeps, outcomes, moviesBefore, prev,
                   cycleBase, unflushed>>

(* line 197: the write that starts a new cycle throws; it is outside the   *)
(* try block, so nothing is saved                                          *)
StartThrows ==
    /\ pc = "idle"
    /\ runs < MaxRuns
    /\ faults < MaxFaults
    /\ getScraperState.completed
    /\ runs' = runs + 1
    /\ faults' = faults + 1
    /\ scraper_state' = TableAfterGet
    /\ result' = Failure
    /\ prev' = [cause |-> endCause, page |-> IF fetched = <<>> THEN 0 ELSE Last(fetched)]
    /\ endCause' = "error"
    /\ split' = NoSplit
    /\ keeps' = <<>>
    /\ fetched' = <<>>
    /\ outcomes' = <<>>
    /\ moviesBefore' = movies
    /\ UNCHANGED <<env, movies, attached, pc, locals, writer, cycleBase, unflushed>>

(* lines 108 and 263: insertNewMovies cannot reach the database; the       *)
(* rejection lands in the catch block of scrapeMoviesIncrementally         *)
WriterThrows ==
    /\ pc = "flush"
    /\ newMovies # <<>>
    /\ faults < MaxFaults
    /\ faults' = faults + 1
    /\ \E saved \in BOOLEAN : Catch(page, saved)
    /\ UNCHANGED <<env, movies, attached, runs, endCause, history>>

\* InsertFails with the try of line 113 around the loop: the failure ends the
\* batch
InsertFailsEndsBatch ==
    /\ pc = "writing"
    /\ idx <= Len(batch)
    /\ RecordFaults < MaxRecordFaults
    /\ outcomes' = Append(outcomes, "norow")
    /\ idx' = Len(batch) + 1
    /\ UNCHANGED <<env, movies, attached, scraper_state, pc, runs, faults, locals, batch,
                   insertedMovies, result, endCause, split, keeps, fetched, moviesBefore,
                   prev, cycleBase, unflushed>>

(* lines 115-132 throw: the record row is not inserted; caught at line 179 *)
InsertFails ==
    /\ pc = "writing"
    /\ idx <= Len(batch)
    /\ RecordFaults < MaxRecordFaults
    /\ outcomes' = Append(outcomes, "norow")
    /\ idx' = idx + 1
    /\ UNCHANGED <<env, movies, attached, scraper_state, pc, runs, faults, locals, batch,
                   insertedMovies, result, endCause, split, keeps, fetched, moviesBefore,
                   prev, cycleBase, unflushed>>

(* lines 137-174 throw: the record row is in, and so are the rows of the   *)
(* statements done before the one that fails; caught at line 179           *)
AttachFails ==
    /\ pc = "writing"
    /\ idx <= Len(batch)
    /\ RecordFaults < MaxRecordFaults
    /\ movies' = Append(movies, batch[idx])
    /\ LET sts == Statements(attrs[batch[idx]])
       IN  \E done \in 0..(Len(sts) - 1) :
               Attach(ApplyAll(SubSeq(sts, 1, done), Len(movies) + 1, Tables))
    /\ outcomes' = Append(outcomes, "row")
    /\ idx' = idx + 1
    /\ UNCHANGED <<env, scraper_state, pc, runs, faults, locals, batch, insertedMovies,
                   result, endCause, split, keeps, fetched, moviesBefore, prev, cycleBase,
                   unflushed>>

(* dropScraperStateTable, lines 86-90: the DROP fails, which is caught     *)
(* and logged; the report is the same                                      *)
DropFails ==
    /\ pc = "finish"
    /\ foundLastMovie
    /\ faults < MaxFaults
    /\ faults' = faults + 1
    /\ result' = Report
    /\ pc' = "idle"
    /\ ResetLocals
    /\ UNCHANGED <<env, movies, attached, scraper_state, runs, endCause, history>>

(* the host ends the invocation (maxDuration, line 8) or the process dies  *)
Crash ==
    /\ pc # "idle"
    /\ faults < MaxFaults
    /\ faults' = faults + 1
    /\ unflushed' = IF pc \in {"paging", "flush"}
                    THEN unflushed \cup Range(newMovies)
                    ELSE unflushed
    /\ result' = Killed
    /\ pc' = "idle"
    /\ ResetLocals
    /\ UNCHANGED <<env, movies, attached, scraper_state, runs, endCause, split, keeps, fetched,
                   outcomes, moviesBefore, prev, cycleBase>>

(* between two invocations the upstream publishes one more record, at the *)
(* head of the catalogue                                                   *)
Publish ==
    /\ pc = "idle"
    /\ Len(upstream) < MaxUp
    /\ upstream' = <<Len(upstream) + 1>> \o upstream
    /\ UNCHANGED <<pageSize, attrs, movies, attached, scraper_state, pc, runs, faults, locals, writer,
                   result, endCause, history>>

----------------------------------------------------------------------------
(* Specifications *)

\* serialized invocations, a static upstream, no failure
NextStatic ==
    \/ Start
    \/ FetchEmpty
    \/ FetchFound
    \/ FetchAdvance
    \/ Flush
    \/ InsertOk
    \/ WriterReturn
    \/ Finish

SpecStatic == Init /\ [][NextStatic]_vars

\* the same, with invocations the host may kill
NextCrash == NextStatic \/ Crash

SpecCrash == Init /\ [][NextCrash]_vars

\* the same, with records whose insertion fails
NextWriter == NextStatic \/ InsertFails \/ AttachFails

SpecWriter == Init /\ [][NextWriter]_vars

\* the same, on records with and without download links, genres and tags
SpecTaxonomy == InitTaxonomy /\ [][NextWriter]_vars

\* static upstream whose answers may fail: a non-success status, a rejected
\* request or a body that does not parse
NextUpstream == NextStatic \/ FetchNotOk \/ FetchThrows

SpecUpstream == Init /\ [][NextUpstream]_vars

\* the statements of scrapeMoviesIncrementally are sequential awaits: a
\* started invocation takes its next step
Running == pc # "idle" /\ NextUpstream

SpecUpstreamFair == SpecUpstream /\ WF_vars(Running)

\* the scheduler keeps invoking the handler, and every invocation proceeds
SpecStaticFair == SpecStatic /\ WF_vars(NextStatic)

\* serialized invocations with the failures of the upstream, of the progress
\* store and of the host, and a growing upstream
Next ==
    \/ NextStatic
    \/ FetchNotOk
    \/ FetchThrows
    \/ UpdateThrows
    \/ StartThrows
    \/ WriterThrows
    \/ DropFails
    \/ Crash
    \/ Publish

Spec == Init /\ [][Next]_vars

----------------------------------------------------------------------------
(* Properties *)

IsPrefix(k, r) == Len(k) <= Len(r) /\ k = SubSeq(r, 1, Len(k))

\* C1: the kept records of a scanned page are the longest prefix of the page
\* holding no record named as the destination watermark, and the boundary is
\* hit exactly when the page holds such a record; with a null watermark the
\* whole page is kept and the boundary is not hit.
BoundarySplit ==
    split.called =>
        /\ IsPrefix(split.keep, split.records)
        /\ \A j \in 1..Len(split.keep) : split.keep[j] # split.wm
        /\ Len(split.keep) < Len(split.records)
               => split.records[Len(split.keep) + 1] = split.wm
        /\ split.hit <=> \E j \in 1..Len(split.records) : split.records[j] = split.wm
        /\ split.wm = Null => split.keep = split.records /\ ~split.hit

\* a page with new records before the watermark and a known one after it
BoundarySplitWitness ==
    /\ split.called
    /\ split.hit
    /\ Len(split.keep) >= 1
    /\ Len(split.keep) + 1 < Len(split.records)

\* the rows a Writer call has added for the records it went through
RECURSIVE RowsAdded(_, _)
RowsAdded(b, o) ==
    IF o = <<>> THEN <<>>
    ELSE LET rest == RowsAdded(SubSeq(b, 1, Len(o) - 1), SubSeq(o, 1, Len(o) - 1))
         IN  IF o[Len(o)] = "norow" THEN rest ELSE Append(rest, b[Len(o)])

\* the records a Writer call went through without a failure
RECURSIVE Succeeded(_, _)
Succeeded(b, o) ==
    IF o = <<>> THEN <<>>
    ELSE LET rest == Succeeded(SubSeq(b, 1, Len(o) - 1), SubSeq(o, 1, Len(o) - 1))
         IN  IF o[Len(o)] = "ok" THEN Append(rest, b[Len(o)]) ELSE rest

\* C2: the batch handed to the Writer is the reverse of the kept prefixes of
\* the invocation's pages, concatenated in fetch order, and the Writer adds the
\* record rows in the order of the batch.
OldestFirstWriteOrder ==
    pc \in {"writing", "finish"} /\ batch # <<>> =>
        /\ batch = Reverse(Concat(keeps))
        /\ movies = moviesBefore \o RowsAdded(batch, outcomes)

\* a batch of three records from two pages, written without a failure
OldestFirstWitness ==
    /\ pc = "finish"
    /\ Len(keeps) >= 2
    /\ Len(batch) >= 3
    /\ batch[1] < batch[2]
    /\ movies = moviesBefore \o batch

\* C3: an invocation after the first that starts with every upstream record in
\* the destination store reports moviesInserted = 0.
IdempotentRerun ==
    /\ pc = "idle"
    /\ result.kind = "report"
    /\ runs >= 2
    /\ Range(upstream) \subseteq Range(moviesBefore)
    => result.stats.moviesInserted = 0

\* C4: when the paging of an invocation ends on a non-success answer for page
\* p, the latest progress row afterwards has cursor p and completed = false,
\* the report has completed = false and nextPage = p, and the first page the
\* next invocation requests is p.
ResumeAfterTruncation ==
    /\ pc = "idle" /\ endCause = "notok" =>
           /\ Last(scraper_state).last_page = Last(fetched)
           /\ ~Last(scraper_state).completed
           /\ result.kind = "report" =>
                  ~result.completed /\ result.nextPage = Last(fetched)
    /\ prev.cause = "notok" /\ pc # "idle" =>
           /\ page >= prev.page
           /\ fetched # <<>> => fetched[1] = prev.page

\* pages 1 and 2 were kept, page 3 was refused, and the next invocation has
\* requested page 3
ResumeWitness ==
    /\ prev.cause = "notok"
    /\ prev.page = 3
    /\ Len(moviesBefore) >= 2
    /\ fetched # <<>>
    /\ fetched[1] = 3

\* C5: the invocation after one whose paging ended with a boundary hit or an
\* empty page starts a new cycle: cursor 1, watermark null, completed = false,
\* and page 1 is the first page it requests.
CompletionStartsNewCycle ==
    prev.cause \in {"boundary", "empty"} /\ pc = "paging" /\ fetched = <<>> =>
        /\ page = 1
        /\ state = InitialRow
        /\ Last(scraper_state) = InitialRow

\* C6: an invocation whose paging ended with a boundary hit or an empty page
\* has cleared the progress table when it returns and reports completed = true.
CompletedOutcome ==
    pc = "idle" /\ result.kind = "report" /\ endCause \in {"boundary", "empty"} =>
        /\ result.completed
        /\ scraper_state = <<>>

\* C7: the Writer goes through every record of the batch whatever fails, does
\* not throw, and returns the names of the records that did not fail, in batch
\* order; the reported count is their number.
PerRecordFaultIsolation ==
    /\ pc = "writing" =>
           /\ Len(outcomes) = idx - 1
           /\ insertedMovies = Succeeded(batch, outcomes)
    /\ pc = "finish" /\ batch # <<>> =>
           /\ Len(outcomes) = Len(batch)
           /\ insertedMovies = Succeeded(batch, outcomes)
           /\ stats.moviesInserted = Len(insertedMovies)

\* a batch of three records whose second record failed
FaultIsolationWitness ==
    /\ pc = "finish"
    /\ Len(batch) = 3
    /\ outcomes = <<"ok", "norow", "ok">>
    /\ insertedMovies = <<batch[1], batch[3]>>
    /\ stats.moviesInserted = 2

\* C8: no record handed to the Writer has a name the destination store
\* already holds.
NoReinsertion ==
    pc = "writing" => Range(batch) \cap Range(moviesBefore) = {}

\* C9: the rows of the destination store are in publication order, so the
\* last row is the most recently published record of the store.
InsertionOrderIsPublicationOrder ==
    pc = "idle" =>
        \A a, b \in 1..Len(movies) : a < b => movies[a] < movies[b]

\* C10: when a cycle completes, every record that a killed invocation of the
\* cycle had fetched and kept, after saving its progress, is in the
\* destination store.
CrashResumeSafety ==
    pc = "idle" /\ result.kind = "report" /\ endCause \in {"boundary", "empty"} =>
        unflushed \subseteq Range(movies)

\* C11: when the request for a page fails in transport or its body does not
\* parse, the invocation flushes the records kept so far and returns a report
\* with completed = false; the progress table is as last saved.
UpstreamFailureTruncates ==
    pc = "idle" /\ endCause \in {"notok", "threw"} =>
        /\ result.kind = "report"
        /\ ~result.completed
        /\ movies = moviesBefore \o Reverse(Concat(keeps))
        /\ Last(scraper_state).last_page = Last(fetched)
        /\ ~Last(scraper_state).completed

\* C13: at every request for a page the latest progress row holds the cursor
\* being requested, with completed = false.
WriteBeforeAdvance ==
    pc = "paging" =>
        /\ Last(scraper_state).last_page = page
        /\ ~Last(scraper_state).completed
        /\ fetched # <<>> => page = Last(fetched) + 1

\* the third page of an invocation is about to be requested
WriteBeforeAdvanceWitness ==
    /\ pc = "paging"
    /\ Len(fetched) = 2
    /\ page = 3
    /\ Last(scraper_state) = Row(3, Last(keeps)[1], FALSE)

\* C14: after a progress write of the paging loop has failed the invocation is
\* over: it has answered with a failure and no row was added to movies.
PersistenceFailureIsFatal ==
    endCause = "error" =>
        /\ pc = "idle"
        /\ result.kind = "error"
        /\ movies = moviesBefore

\* the progress write of the second page failed, with the first page kept
PersistenceFailureWitness ==
    /\ endCause = "error"
    /\ Len(fetched) = 2
    /\ keeps # <<>>
    /\ result.kind = "error"

\* C15: an exception in the paging loop adds at most one progress row, which
\* holds the in-memory cursor and completed = false, and the invocation ends
\* with a failure.
BestEffortCheckpoint ==
    [][pc = "paging" /\ endCause' \in {"threw", "error"} =>
           /\ result'.kind = "error"
           /\ pc' = "idle"
           /\ LET records == FetchPage(page)
                  cursor  == IF endCause' = "threw" \/ records = <<>>
                                \/ Split(records, dbLastMovieName).hit
                             THEN page ELSE page + 1
              IN  \/ scraper_state' = scraper_state
                  \/ scraper_state' =
                         Append(scraper_state, Row(cursor, state.last_movie_name, FALSE))
      ]_vars

\* the request for the second page threw and the cursor 2 was saved again
BestEffortCheckpointWitness ==
    /\ pc = "idle"
    /\ endCause = "threw"
    /\ result.kind = "error"
    /\ fetched = <<1, 2>>
    /\ Len(scraper_state) = 3
    /\ scraper_state[3] = Row(2, Null, FALSE)

\* C16, safety part: an invocation requests at most maxPagesToProcess pages,
\* consecutive ones from the cursor it read, and the loop ends at the first of
\* budget, non-success answer, empty page and boundary hit.
PageBudget ==
    /\ Len(fetched) <= maxPagesToProcess
    /\ \A j \in 1..Len(fetched) : fetched[j] = fetched[1] + j - 1
    /\ pc = "paging" =>
           /\ i = Len(fetched)
           /\ i < maxPagesToProcess
           /\ endCause = "none"
           /\ page = state.last_page + i
    /\ pc \in {"flush", "writing", "finish"} =>
           /\ endCause \in {"budget", "notok", "empty", "boundary"}
           /\ fetched[1] = state.last_page
           /\ endCause = "budget" <=> i = maxPagesToProcess
           /\ endCause = "boundary" <=> foundLastMovie
           /\ endCause # "budget" => Len(fetched) = i + 1

\* C16: the page budget holds, and every invocation that has started ends.
BudgetAndTermination ==
    /\ []PageBudget
    /\ (pc # "idle") ~> (pc = "idle")

\* an invocation that used its whole budget has returned
BudgetWitness ==
    /\ pc = "idle"
    /\ endCause = "budget"
    /\ Len(fetched) = maxPagesToProcess
    /\ result.kind = "report"

\* C19: with a static upstream and no failure some invocation ends its paging
\* with a boundary hit or an empty page, and an invocation suspended by the
\* budget leaves a saved cursor larger than the one it started from.
EventualCompletion ==
    /\ <>(endCause \in {"boundary", "empty"})
    /\ [][pc = "finish" /\ endCause = "budget" =>
              /\ Last(scraper_state').last_page > state.last_page
              /\ result'.nextPage = Last(scraper_state').last_page]_vars

\* a cycle that a second invocation completed after the budget suspended the
\* first one
EventualCompletionWitness ==
    /\ pc = "idle"
    /\ prev.cause = "budget"
    /\ endCause = "empty"
    /\ result.kind = "report"

\* the records listed before the record named w in the upstream
NewerThan(w) ==
    { upstream[j] : j \in { m \in 1..Len(upstream) :
                              \A q \in 1..m : upstream[q] # w } }

\* C20: when a cycle ends, every upstream record newer than the destination
\* watermark the cycle started with is in the destination store.
CompleteAtCompletion ==
    pc = "idle" /\ result.kind = "report" /\ endCause \in {"boundary", "empty"} =>
        NewerThan(cycleBase) \subseteq Range(movies)

\* a cycle of two invocations, started with a non-empty destination store
CompleteWitness ==
    /\ pc = "idle"
    /\ result.kind = "report"
    /\ prev.cause = "budget"
    /\ endCause \in {"boundary", "empty"}
    /\ cycleBase # Null
    /\ Len(movies) > Len(moviesBefore)

\* C17: the names the Writer returns are exactly the names of the record rows
\* the call added to movies, so moviesInserted is the number of rows added.
AccurateInsertedNames ==
    pc = "finish" /\ batch # <<>> =>
        /\ movies = moviesBefore \o insertedMovies
        /\ stats.moviesInserted = Len(movies) - Len(moviesBefore)

\* C12: a record with zero download variants fails as a single record: it adds
\* no row and its name is not returned, the rest of the batch is still processed.
ZeroVariantRejected ==
    \A j \in 1..Len(outcomes) :
        attrs[batch[j]].links = 0 => outcomes[j] = "norow"

\* the rows of a table are pairwise different
NoDuplicates(table) ==
    \A a, b \in 1..Len(table) : a # b => table[a] # table[b]

\* C18: get-or-create never duplicates: no two rows of genres, and no two rows of
\* tags, hold the same name, and every linking row points at the one row that
\* holds a label of its record.
GetOrCreateNeverDuplicates ==
    /\ NoDuplicates(genres)
    /\ NoDuplicates(tags)
    /\ \A link \in Range(movie_genres) :
           /\ link.movie_id \in 1..Len(movies)
           /\ link.genre_id \in 1..Len(genres)
           /\ genres[link.genre_id] \in Range(attrs[movies[link.movie_id]].genre)
    /\ \A link \in Range(movie_tags) :
           /\ link.movie_id \in 1..Len(movies)
           /\ link.tag_id \in 1..Len(tags)
           /\ tags[link.tag_id] \in Range(attrs[movies[link.movie_id]].tags)

\* two records of one batch carry a label that the first of them created
GetOrCreateWitness ==
    /\ pc = "finish"
    /\ \E x, y \in Range(movie_genres) :
           /\ x.movie_id # y.movie_id
           /\ x.genre_id = y.genre_id
           /\ x.movie_id > Len(moviesBefore)
           /\ y.movie_id > Len(moviesBefore)
           /\ x.genre_id > Len(Seeded(attrs, Len(moviesBefore)).genres)

====
